---- MODULE Spec2Model ----
(***************************************************************************)
(* web-retriever: the content normalisation pipeline of main.py.           *)
(*                                                                         *)
(* A Python str / bytes value is a sequence of one-character strings, so   *)
(* len(), slicing, startswith(), split() and join() are computed as the    *)
(* code computes them.  What the external parsers (json, yaml, PyPDF2,     *)
(* BeautifulSoup) make of the bytes is carried by the resource next to its *)
(* bytes: the parsers are libraries, their result on a given input is an   *)
(* input of the pipeline.                                                  *)
(***************************************************************************)
EXTENDS Integers, Sequences, FiniteSets, TLC

VARIABLES
    pc,             \* position of get_url_content in its body
    charLimit,      \* CHAR_LIMIT of this run
    imagesCharLimit,\* IMAGES_CHAR_LIMIT of this run
    content,        \* response.content and what the parsers make of it
    content_type,   \* local content_type
    paragraphs,     \* local paragraphs (HTML branch)
    truncated,      \* truncate_paragraphs(paragraphs, CHAR_LIMIT) (HTML branch)
    text,           \* local text
    collected,      \* local images before lines 158-160
    images,         \* local images
    response,       \* the Response returned
    fn              \* a direct call of one of the two truncation functions

vars == <<pc, charLimit, imagesCharLimit, content, content_type, paragraphs,
          truncated, text, collected, images, response, fn>>

----------------------------------------------------------------------------
(* Bounds of the model *)

MaxCharLimit == 5
MaxImagesCharLimit == 9
MaxFrags == 3
MaxPages == 2
MaxLines == 2
MaxImgs == 2

(* Program constants *)

CHAR_LIMIT == 1585
IMAGES_CHAR_LIMIT == 300

----------------------------------------------------------------------------
(* Strings *)

LowerLetters == <<"a","b","c","d","e","f","g","h","i","j","k","l","m",
                  "n","o","p","q","r","s","t","u","v","w","x","y","z">>
UpperLetters == <<"A","B","C","D","E","F","G","H","I","J","K","L","M",
                  "N","O","P","Q","R","S","T","U","V","W","X","Y","Z">>

UpperChar(c) ==
    IF \E i \in 1..26 : LowerLetters[i] = c
    THEN UpperLetters[CHOOSE i \in 1..26 : LowerLetters[i] = c]
    ELSE c

LowerChar(c) ==
    IF \E i \in 1..26 : UpperLetters[i] = c
    THEN LowerLetters[CHOOSE i \in 1..26 : UpperLetters[i] = c]
    ELSE c

upper(s) == [i \in 1..Len(s) |-> UpperChar(s[i])]
lower(s) == [i \in 1..Len(s) |-> LowerChar(s[i])]

startswith(s, prefix) ==
    /\ Len(s) >= Len(prefix)
    /\ SubSeq(s, 1, Len(prefix)) = prefix

endswith(s, suffix) ==
    /\ Len(s) >= Len(suffix)
    /\ SubSeq(s, Len(s) - Len(suffix) + 1, Len(s)) = suffix

\* s[:n]; a negative n counts from the end, as Python slices do
Slice(s, n) ==
    IF n >= 0
    THEN SubSeq(s, 1, IF n < Len(s) THEN n ELSE Len(s))
    ELSE SubSeq(s, 1, IF Len(s) + n > 0 THEN Len(s) + n ELSE 0)

Whitespace == {" ", "\n", "\t", "\r"}

RECURSIVE lstrip(_)
lstrip(s) ==
    IF s # <<>> /\ Head(s) \in Whitespace THEN lstrip(Tail(s)) ELSE s

RECURSIVE rstrip(_)
rstrip(s) ==
    IF s # <<>> /\ s[Len(s)] \in Whitespace
    THEN rstrip(SubSeq(s, 1, Len(s) - 1))
    ELSE s

strip(s) == rstrip(lstrip(s))

\* sep.join(parts)
RECURSIVE join(_, _)
join(sep, parts) ==
    IF parts = <<>> THEN <<>>
    ELSE IF Len(parts) = 1 THEN parts[1]
    ELSE parts[1] \o sep \o join(sep, Tail(parts))

\* s.split(sep) for a one-character sep: never empty, "" gives [""]
RECURSIVE split(_, _)
split(s, sep) ==
    IF \E i \in 1..Len(s) : s[i] = sep
    THEN LET i == CHOOSE k \in 1..Len(s) :
                    s[k] = sep /\ \A j \in 1..(k - 1) : s[j] # sep
         IN  <<SubSeq(s, 1, i - 1)>> \o split(SubSeq(s, i + 1, Len(s)), sep)
    ELSE <<s>>

RECURSIVE SumLen(_)
SumLen(ss) == IF ss = <<>> THEN 0 ELSE Len(Head(ss)) + SumLen(Tail(ss))

RECURSIVE Concat(_)
Concat(ss) == IF ss = <<>> THEN <<>> ELSE Head(ss) \o Concat(Tail(ss))

\* all sequences over S of length at most n
SeqsUpTo(S, n) == UNION {[1..k -> S] : k \in 0..n}

NL == <<"\n">>

----------------------------------------------------------------------------
(* Literals of main.py *)

PDF_MAGIC == <<"%","P","D","F","-">>
DOCTYPE_HTML == <<"<","!","D","O","C","T","Y","P","E"," ","H","T","M","L">>
HTML_TAG == <<"<","h","t","m","l">>
JSON_OBJECT_OPEN == <<"{">>
JSON_ARRAY_OPEN == <<"[">>
YAML_DASHES == <<"-","-","-">>
YAML_DIRECTIVE == <<"%","Y","A","M","L">>
HTTP_PREFIX == <<"h","t","t","p",":">>

\* the alternatives of image_pattern, in the order of the pattern
IMAGE_PATTERN_EXTS == <<<<"j","p","g">>, <<"j","p","e","g">>, <<"p","n","g">>, <<"g","i","f">>, <<"b","m","p">>, <<"w","e","b","p">>, <<"s","v","g">>>>

\* the suffixes tested by the text/plain branch, in the order of the code
PLAIN_IMAGE_SUFFIXES == <<<<".","j","p","g">>, <<".","p","n","g">>, <<".","j","p","e","g">>, <<".","g","i","f">>, <<".","w","e","b","p">>, <<".","s","v","g">>>>

TEXT_YAML_HEADER == <<"t","e","x","t","_","c","o","n","t","e","n","t",":"," ","|","\n">>
IMAGES_YAML_HEADER == <<"i","m","a","g","e","s",":","\n">>

----------------------------------------------------------------------------
(* extract_image_links: re.findall(image_pattern, text, re.IGNORECASE) with *)
(* image_pattern = https?://\S+\.(?:jpg|jpeg|png|gif|bmp|webp|svg)          *)

\* lower(s) has prefix at index i
HasAt(s, i, prefix) ==
    /\ i >= 1
    /\ i + Len(prefix) - 1 <= Len(s)
    /\ SubSeq(s, i, i + Len(prefix) - 1) = prefix

\* one of the extensions follows the dot at index d
ExtAfterDot(ls, d) ==
    \E e \in 1..Len(IMAGE_PATTERN_EXTS) : HasAt(ls, d + 1, IMAGE_PATTERN_EXTS[e])

\* the first alternative that matches after the dot at index d
ExtMatched(ls, d) ==
    IMAGE_PATTERN_EXTS[CHOOSE e \in 1..Len(IMAGE_PATTERN_EXTS) :
        /\ HasAt(ls, d + 1, IMAGE_PATTERN_EXTS[e])
        /\ \A f \in 1..(e - 1) : ~HasAt(ls, d + 1, IMAGE_PATTERN_EXTS[f])]

\* index of the last character of the match that starts at index i, 0 if none
MatchEnd(s, i) ==
    LET ls == lower(s)
        \* https? is greedy; after "http" only "s" or ":" can lead to a match
        k == IF HasAt(ls, i, <<"h","t","t","p","s">>) THEN i + 5
             ELSE IF HasAt(ls, i, <<"h","t","t","p">>) THEN i + 4
             ELSE 0
        m == k + 3
        \* \S+ is greedy: the dot is the last one that leaves a match
        Dots == {d \in (m + 1)..Len(s) :
                    /\ s[d] = "."
                    /\ \A j \in m..(d - 1) : s[j] \notin Whitespace
                    /\ ExtAfterDot(ls, d)}
    IN  IF k = 0 \/ ~HasAt(ls, k, <<":","/","/">>) \/ Dots = {} THEN 0
        ELSE LET d == CHOOSE x \in Dots : \A y \in Dots : y <= x
             IN  d + Len(ExtMatched(ls, d))

RECURSIVE FindAllFrom(_, _)
FindAllFrom(s, i) ==
    IF i > Len(s) THEN <<>>
    ELSE LET e == MatchEnd(s, i)
         IN  IF e > 0
             THEN <<SubSeq(s, i, e)>> \o FindAllFrom(s, e + 1)
             ELSE FindAllFrom(s, i + 1)

extract_image_links(s) == FindAllFrom(s, 1)

----------------------------------------------------------------------------
(* detect_content_type *)

\* json.loads(content): the parsed value, kind "JSONDecodeError" when it raises
json_loads(c) == c.json

\* yaml.safe_load(content): "ok" or "YAMLError"
yaml_safe_load(c) == c.yaml

is_html_magic(bytes) ==
    startswith(upper(bytes), DOCTYPE_HTML) \/ startswith(bytes, HTML_TAG)

detect_content_type(c) ==
    IF startswith(c.bytes, PDF_MAGIC) THEN "application/pdf"
    ELSE IF is_html_magic(c.bytes) THEN "text/html"
    ELSE IF startswith(c.bytes, JSON_OBJECT_OPEN) \/ startswith(c.bytes, JSON_ARRAY_OPEN)
    THEN IF json_loads(c).kind # "JSONDecodeError"
         THEN "application/json"
         ELSE "text/plain"
    ELSE IF startswith(c.bytes, YAML_DASHES) \/ startswith(c.bytes, YAML_DIRECTIVE)
    THEN IF yaml_safe_load(c) # "YAMLError"
         THEN "application/x-yaml"
         ELSE "text/plain"
    ELSE "text/plain"

----------------------------------------------------------------------------
(* limit_image_count *)

normalize_url(url) ==
    IF startswith(url, <<"/","/">>) THEN HTTP_PREFIX \o url ELSE url

\* the scheme added to a protocol-relative URL is not charged
charged_length_raw(url) == Len(url)

charged_length(url) ==
    IF startswith(url, <<"/","/">>) THEN Len(HTTP_PREFIX) + Len(url) ELSE Len(url)

\* the URL at hand is not counted in the test
image_overflows_before(current_length, url_length, max_chars) ==
    current_length > max_chars

image_overflows(current_length, url_length, max_chars) ==
    current_length + url_length > max_chars

RECURSIVE limit_image_loop(_, _, _, _)
limit_image_loop(urls, max_chars, limited_images, current_length) ==
    IF urls = <<>> THEN limited_images
    ELSE LET url == Head(urls)
             url_length == charged_length(url)
         IN  IF image_overflows(current_length, url_length, max_chars)
             THEN limited_images
             ELSE limit_image_loop(Tail(urls), max_chars,
                                   Append(limited_images, normalize_url(url)),
                                   current_length + url_length)

\* continue instead of break: a URL that overflows is skipped
RECURSIVE limit_image_loop_skip(_, _, _, _)
limit_image_loop_skip(urls, max_chars, limited_images, current_length) ==
    IF urls = <<>> THEN limited_images
    ELSE LET url == Head(urls)
             url_length == charged_length(url)
         IN  IF image_overflows(current_length, url_length, max_chars)
             THEN limit_image_loop_skip(Tail(urls), max_chars, limited_images,
                                        current_length)
             ELSE limit_image_loop_skip(Tail(urls), max_chars,
                                        Append(limited_images, normalize_url(url)),
                                        current_length + url_length)

limit_image_count_skip(urls, max_chars) ==
    limit_image_loop_skip(urls, max_chars, <<>>, 0)

limit_image_count(urls, max_chars) == limit_image_loop(urls, max_chars, <<>>, 0)

----------------------------------------------------------------------------
(* truncate_paragraphs *)

\* < instead of <=
paragraph_fits_strict(current_length, paragraph, max_length) ==
    current_length + Len(paragraph) < max_length

paragraph_fits(current_length, paragraph, max_length) ==
    current_length + Len(paragraph) <= max_length

RECURSIVE truncate_loop(_, _, _, _)
truncate_loop(ps, max_length, truncated_paragraphs, current_length) ==
    IF ps = <<>> THEN truncated_paragraphs
    ELSE LET paragraph == Head(ps)
         IN  IF paragraph_fits(current_length, paragraph, max_length)
             THEN truncate_loop(Tail(ps), max_length,
                                Append(truncated_paragraphs, paragraph),
                                current_length + Len(paragraph))
             ELSE LET remaining_length == max_length - current_length
                  IN  Append(truncated_paragraphs, Slice(paragraph, remaining_length))

truncate_paragraphs(ps, max_length) == truncate_loop(ps, max_length, <<>>, 0)

\* text[:CHAR_LIMIT + 1]
clamp_text_off_by_one(t, limit) == IF Len(t) > limit THEN Slice(t, limit + 1) ELSE t

\* lines 162-163
clamp_text(t, limit) == IF Len(t) > limit THEN Slice(t, limit) ELSE t

----------------------------------------------------------------------------
(* Parsed JSON values.  A top-level value is a dict (its items in parsed   *)
(* order) or a list (its items under an empty key); a member value is a    *)
(* str, an int or a list of str/int leaves.                                *)

JLeafStr(x) == [kind |-> "str", s |-> x, n |-> 0]
JLeafInt(k) == [kind |-> "int", s |-> <<>>, n |-> k]
JStr(x) == [kind |-> "str", s |-> x, n |-> 0, items |-> <<>>]
JInt(k) == [kind |-> "int", s |-> <<>>, n |-> k, items |-> <<>>]
JList(xs) == [kind |-> "list", s |-> <<>>, n |-> 0, items |-> xs]
JItem(k, v) == [key |-> k, val |-> v]
JDict(kvs) == [kind |-> "dict", items |-> kvs]
JTopList(vs) == [kind |-> "list", items |-> [i \in 1..Len(vs) |-> JItem(<<>>, vs[i])]]
JDecodeError == [kind |-> "JSONDecodeError", items |-> <<>>]
NoJson == [kind |-> "n/a", items |-> <<>>]

Digits == <<"0","1","2","3","4","5","6","7","8","9">>

\* yaml.dump of a scalar: a plain scalar, '' for the empty string
yaml_scalar(v) ==
    IF v.kind = "int" THEN <<Digits[v.n + 1]>>
    ELSE IF v.s = <<>> THEN <<"'","'">>
    ELSE v.s

yaml_block_seq(xs) ==
    Concat([i \in 1..Len(xs) |-> <<"-"," ">> \o yaml_scalar(xs[i]) \o NL])

yaml_member(it) ==
    IF it.val.kind = "list"
    THEN IF it.val.items = <<>>
         THEN it.key \o <<":"," ","[","]">> \o NL
         ELSE it.key \o <<":">> \o NL \o yaml_block_seq(it.val.items)
    ELSE it.key \o <<":"," ">> \o yaml_scalar(it.val) \o NL

\* yaml.dump(json_data, sort_keys=False, default_flow_style=False)
yaml_dump(j) ==
    IF j.kind = "dict"
    THEN IF j.items = <<>> THEN <<"{","}">> \o NL
         ELSE Concat([i \in 1..Len(j.items) |-> yaml_member(j.items[i])])
    ELSE IF j.items = <<>> THEN <<"[","]">> \o NL
         ELSE yaml_block_seq([i \in 1..Len(j.items) |-> j.items[i].val])

----------------------------------------------------------------------------
(* Resources: response.content with what each parser returns for it *)

NoPdf == [kind |-> "n/a", pages |-> <<>>]
NoDom == [p |-> <<>>, div |-> <<>>, span |-> <<>>]

Resource(b, j, y, pdf, dom) ==
    [bytes |-> b, json |-> j, yaml |-> y, pdf |-> pdf, dom |-> dom]

\* a page of pdf_reader.pages: extract_text() returns text, raises, or returns None
PageText(t) == [result |-> "text", text |-> t]
PageRaises == [result |-> "raise", text |-> <<>>]
PageNone == [result |-> "None", text |-> <<>>]
PageOutcomes == {PageText(<<"a">>), PageText(<<"b","c">>), PageRaises, PageNone}

PdfResources ==
    {Resource(PDF_MAGIC, NoJson, "n/a", [kind |-> "pages", pages |-> ps], NoDom) :
        ps \in SeqsUpTo(PageOutcomes, MaxPages)}
    \cup {Resource(PDF_MAGIC, NoJson, "n/a", [kind |-> "PdfReadError", pages |-> <<>>], NoDom)}

\* an <img> under the parent of a <p>: img.get("src")
Img(has, src) == [has_src |-> has, src |-> src]
ImgSamples == {Img(TRUE, <<"/","/","a">>), Img(TRUE, <<"u">>), Img(TRUE, <<>>), Img(FALSE, <<>>)}

\* a <p> element: its text and the <img> elements found under its parent
P(t, imgs) == [text |-> t, parent_imgs |-> imgs]

ElemTexts == {<<>>, <<"a">>, <<"b","c">>, <<" ","d"," ">>}

HELLO == <<"H","e","l","l","o">>
WORLD == <<"W","o","r","l","d">>

HtmlDoms ==
    {[p |-> [i \in 1..Len(ts) |-> P(ts[i], <<>>)], div |-> <<>>, span |-> <<>>] :
        ts \in SeqsUpTo(ElemTexts, MaxFrags)}
    \cup {[p |-> [i \in 1..k |-> P(<<"a">>, imgs)], div |-> <<>>, span |-> <<>>] :
            k \in 1..2, imgs \in SeqsUpTo(ImgSamples, MaxImgs)}
    \cup {[p |-> <<>>, div |-> <<<<" ","d"," ">>, <<"e">>>>, span |-> <<<<"s">>>>],
          [p |-> <<>>, div |-> <<>>, span |-> <<<<"s">>, <<"t"," ">>>>],
          [p |-> <<P(HELLO, <<>>), P(WORLD, <<>>)>>, div |-> <<>>, span |-> <<>>]}

HTML_LOWER == <<"<","h","t","m","l",">">>
HTML_UPPER == <<"<","H","T","M","L",">">>
HTML_MIXED == <<"<","H","t","m","l",">">>
HTML_DOCTYPE == <<"<","!","d","o","c","t","y","p","e"," ","h","t","m","l",">">>
HTML_DOCTYPE_UPPER == <<"<","!","D","O","C","T","Y","P","E"," ","H","T","M","L",">">>

SmallDom == [p |-> <<P(<<"x">>, <<>>)>>, div |-> <<>>, span |-> <<>>]

HtmlResources ==
    {Resource(HTML_LOWER, NoJson, "n/a", NoPdf, d) : d \in HtmlDoms}
    \cup {Resource(b, NoJson, "n/a", NoPdf, SmallDom) :
            b \in {HTML_UPPER, HTML_MIXED, HTML_DOCTYPE, HTML_DOCTYPE_UPPER}}

URL_1_JPG == <<"h","t","t","p",":","/","/","x",".","c","o","m","/","1",".","j","p","g">>
URL_2_PNG == <<"h","t","t","p",":","/","/","x",".","c","o","m","/","2",".","p","n","g">>
URL_IN_TEXT == <<"s","e","e"," ","H","T","T","P","S",":","/","/","h","/","a",".","j","p","e","g",".","P","N","G"," ","o","r"," ","h","t","t","p",":","/","/","h","/","b",".","t","x","t">>

JsonResources ==
    {Resource(<<"{","\"","a","\"",":"," ","\"","h","t","t","p",":","/","/","x",".","c","o","m","/","1",".","j","p","g","\"",","," ","\"","b","\"",":"," ","[","\"","h","t","t","p",":","/","/","x",".","c","o","m","/","2",".","p","n","g","\"","]","}">>, JDict(<<JItem(<<"a">>, JStr(URL_1_JPG)),
                          JItem(<<"b">>, JList(<<JLeafStr(URL_2_PNG)>>))>>), "n/a", NoPdf, NoDom),
     Resource(<<"{","\"","a","\"",":"," ","1","}">>, JDict(<<JItem(<<"a">>, JInt(1))>>), "n/a", NoPdf, NoDom),
     Resource(<<"{","}">>, JDict(<<>>), "n/a", NoPdf, NoDom),
     Resource(<<"{","\"","t","\"",":"," ","\"","s","e","e"," ","H","T","T","P","S",":","/","/","h","/","a",".","j","p","e","g",".","P","N","G"," ","o","r"," ","h","t","t","p",":","/","/","h","/","b",".","t","x","t","\"",","," ","\"","n","\"",":"," ","[","1",","," ","\"","\"","]","}">>, JDict(<<JItem(<<"t">>, JStr(URL_IN_TEXT)),
                          JItem(<<"n">>, JList(<<JLeafInt(1), JLeafStr(<<>>)>>))>>), "n/a", NoPdf, NoDom),
     Resource(<<"[","1",","," ","2","]">>, JTopList(<<JInt(1), JInt(2)>>), "n/a", NoPdf, NoDom),
     Resource(<<"[","\"","h","t","t","p",":","/","/","x",".","c","o","m","/","1",".","j","p","g","\"","]">>, JTopList(<<JStr(URL_1_JPG)>>), "n/a", NoPdf, NoDom),
     Resource(<<"{","x">>, JDecodeError, "n/a", NoPdf, NoDom),
     Resource(<<"[">>, JDecodeError, "n/a", NoPdf, NoDom)}

YamlResources ==
    {Resource(<<"-","-","-","\n","a",":"," ","1","\n">>, NoJson, "ok", NoPdf, NoDom),
     Resource(<<"-","-","-">>, NoJson, "ok", NoPdf, NoDom),
     Resource(<<"%","Y","A","M","L"," ","1",".","2","\n","-","-","-","\n","a","\n">>, NoJson, "ok", NoPdf, NoDom),
     Resource(<<"-","-","-","\n","@">>, NoJson, "YAMLError", NoPdf, NoDom),
     Resource(<<"%","Y","A","M","L"," ","@">>, NoJson, "YAMLError", NoPdf, NoDom)}

URL_A_JPG == <<"h","t","t","p",":","/","/","x",".","c","o","m","/","a",".","j","p","g">>
NOT_AN_IMAGE == <<"n","o","t"," ","a","n"," ","i","m","a","g","e">>

LineSamples == {<<"a",".","j","p","g">>, <<"A",".","J","P","G">>, <<"b",".","b","m","p">>, <<"n","o">>, <<"a",".","j","p","g"," ","x">>, <<"/","/","c",".","p","n","g">>}

PlainResources ==
    {Resource(join(NL, ls), NoJson, "n/a", NoPdf, NoDom) :
        ls \in SeqsUpTo(LineSamples, MaxLines)}
    \cup {Resource(join(NL, <<URL_A_JPG, NOT_AN_IMAGE>>), NoJson, "n/a", NoPdf, NoDom)}

Resources ==
    PdfResources \cup HtmlResources \cup JsonResources \cup YamlResources \cup PlainResources

CharLimits == (0..MaxCharLimit) \cup {CHAR_LIMIT}
ImagesCharLimits == (0..MaxImagesCharLimit) \cup {IMAGES_CHAR_LIMIT}

----------------------------------------------------------------------------
(* get_url_content, branch by branch *)

\* response.text for an ASCII body: the characters of the bytes
response_text(c) == c.bytes

NoResponse ==
    [status |-> 0, media_type |-> "", text_yaml |-> <<>>, images_yaml |-> <<>>,
     closing |-> ""]

\* lines 179-182
ErrorResponse ==
    [status |-> 500, media_type |-> "application/json", text_yaml |-> <<>>,
     images_yaml |-> <<>>, closing |-> "Sorry, the url is not available."]

\* lines 113-117: the text of the pages, "raise" when PdfReader or a page fails
pdf_page_fails(page) == page.result # "text"

pdf_raises(pdf) ==
    \/ pdf.kind = "PdfReadError"
    \/ \E i \in 1..Len(pdf.pages) : pdf_page_fails(pdf.pages[i])

pdf_text(pdf) == Concat([i \in 1..Len(pdf.pages) |-> pdf.pages[i].text])

\* lines 122-130: p.get_text(strip=True), first non-empty tier
html_paragraphs(dom) ==
    LET ps == [i \in 1..Len(dom.p) |-> strip(dom.p[i].text)]
        ds == [i \in 1..Len(dom.div) |-> strip(dom.div[i])]
        ss == [i \in 1..Len(dom.span) |-> strip(dom.span[i])]
    IN  IF ps # <<>> THEN ps ELSE IF ds # <<>> THEN ds ELSE ss

\* img.get("src") is truthy
has_src(img) == img.has_src /\ img.src # <<>>

\* lines 135-138
html_images(dom) ==
    Concat([i \in 1..Len(dom.p) |->
        LET kept == SelectSeq(dom.p[i].parent_imgs, has_src)
        IN  [k \in 1..Len(kept) |-> kept[k].src]])

\* json_data.items() exists
json_has_items(j) == j.kind = "dict"

json_leaf_links(leaf) ==
    IF leaf.kind = "str" THEN extract_image_links(leaf.s) ELSE <<>>

\* lines 145-151
json_images(j) ==
    Concat([i \in 1..Len(j.items) |->
        LET value == j.items[i].val
        IN  IF value.kind = "str" THEN extract_image_links(value.s)
            ELSE IF value.kind = "list"
            THEN Concat([k \in 1..Len(value.items) |-> json_leaf_links(value.items[k])])
            ELSE <<>>])

\* lines 155-156
is_plain_image_line(line) ==
    \E i \in 1..Len(PLAIN_IMAGE_SUFFIXES) : endswith(line, PLAIN_IMAGE_SUFFIXES[i])

plain_images(t) == SelectSeq(split(t, "\n"), is_plain_image_line)

\* lines 158-159
normalize_images(urls) == [i \in 1..Len(urls) |-> normalize_url(urls[i])]

\* lines 165-167
format_text_yaml(t) ==
    LET lines == split(t, "\n")
    IN  TEXT_YAML_HEADER \o Concat([i \in 1..Len(lines) |-> <<" "," ">> \o lines[i] \o NL])

\* lines 169-171
format_images_yaml(imgs) ==
    (IF Len(imgs) > 0 THEN IMAGES_YAML_HEADER ELSE <<>>)
    \o Concat([i \in 1..Len(imgs) |-> <<"-"," ">> \o imgs[i] \o NL])

\* lines 173-177
RenderedResponse(t, imgs) ==
    [status |-> 200, media_type |-> "text/plain",
     text_yaml |-> format_text_yaml(t),
     images_yaml |-> format_images_yaml(imgs),
     closing |-> IF Len(imgs) > 0
                 THEN "I now know the final answer, and I will also include images in the format like this: ![](image url)"
                 ELSE "I now know the final answer."]

----------------------------------------------------------------------------
(* Direct calls of the truncation functions *)

MaxCalls == 2

IdleFn == [op |-> "idle", arg |-> <<>>, max |-> 0, results |-> <<>>]

FnTexts == {<<>>, <<"a">>, <<"b","c">>, <<"d","e","f">>}
FnUrls == {<<"/","/","a">>, <<"u">>, <<"v","w">>, <<"/","/">>}

FnCalls ==
    {[op |-> "truncate_paragraphs", arg |-> ps, max |-> b, results |-> <<>>] :
        ps \in SeqsUpTo(FnTexts, MaxFrags), b \in 0..MaxCharLimit}
    \cup {[op |-> "limit_image_count", arg |-> us, max |-> b, results |-> <<>>] :
            us \in SeqsUpTo(FnUrls, MaxImgs), b \in 0..MaxImagesCharLimit}
    \cup {[op |-> "clamp_text", arg |-> <<t>>, max |-> b, results |-> <<>>] :
            t \in FnTexts, b \in 0..MaxCharLimit}

\* the argument of the next call: the input, then the previous result
FnArg == IF fn.results = <<>> THEN fn.arg ELSE fn.results[Len(fn.results)]

----------------------------------------------------------------------------
(* State machine of one request *)

Init ==
    /\ pc = "fetched"
    /\ charLimit \in CharLimits
    /\ imagesCharLimit \in ImagesCharLimits
    /\ content \in Resources
    /\ content_type = ""
    /\ paragraphs = <<>>
    /\ truncated = <<>>
    /\ text = <<>>
    /\ collected = <<>>
    /\ images = <<>>
    /\ response = NoResponse
    /\ fn = IdleFn

\* lines 106-109
Detect ==
    /\ pc = "fetched"
    /\ pc' = "detected"
    /\ content_type' = detect_content_type(content)
    /\ text' = <<>>
    /\ images' = <<>>
    /\ UNCHANGED <<charLimit, imagesCharLimit, content, paragraphs, truncated,
                   collected, response, fn>>

\* lines 111-117; an exception goes to lines 179-182
ExtractPdf ==
    /\ pc = "detected"
    /\ content_type = "application/pdf"
    /\ IF pdf_raises(content.pdf)
       THEN /\ pc' = "error"
            /\ response' = ErrorResponse
            /\ UNCHANGED text
       ELSE /\ pc' = "extracted"
            /\ text' = pdf_text(content.pdf)
            /\ UNCHANGED response
    /\ UNCHANGED <<charLimit, imagesCharLimit, content, content_type, paragraphs,
                   truncated, collected, images, fn>>

\* lines 119-138
ExtractHtml ==
    /\ pc = "detected"
    /\ content_type = "text/html"
    /\ pc' = "extracted"
    /\ paragraphs' = html_paragraphs(content.dom)
    /\ truncated' = truncate_paragraphs(paragraphs', charLimit)
    /\ text' = join(<<" ">>, truncated')
    /\ images' = html_images(content.dom)
    /\ collected' = images'
    /\ UNCHANGED <<charLimit, imagesCharLimit, content, content_type, response, fn>>

\* lines 140-151; a json_data without items() raises, lines 179-182
ExtractJson ==
    /\ pc = "detected"
    /\ content_type = "application/json"
    /\ LET json_data == json_loads(content)
       IN  IF json_has_items(json_data)
           THEN /\ pc' = "extracted"
                /\ text' = yaml_dump(json_data)
                /\ images' = json_images(json_data)
                /\ collected' = images'
                /\ UNCHANGED response
           ELSE /\ pc' = "error"
                /\ response' = ErrorResponse
                /\ text' = yaml_dump(json_data)
                /\ UNCHANGED <<images, collected>>
    /\ UNCHANGED <<charLimit, imagesCharLimit, content, content_type, paragraphs,
                   truncated, fn>>

\* lines 153-156
ExtractPlain ==
    /\ pc = "detected"
    /\ content_type = "text/plain"
    /\ pc' = "extracted"
    /\ text' = response_text(content)
    /\ images' = plain_images(text')
    /\ collected' = images'
    /\ UNCHANGED <<charLimit, imagesCharLimit, content, content_type, paragraphs,
                   truncated, response, fn>>

\* none of the four branches of lines 111-156 is taken
ExtractNothing ==
    /\ pc = "detected"
    /\ content_type \notin {"application/pdf", "text/html", "application/json", "text/plain"}
    /\ pc' = "extracted"
    /\ UNCHANGED <<charLimit, imagesCharLimit, content, content_type, paragraphs,
                   truncated, text, collected, images, response, fn>>

\* lines 158-160
LimitImages ==
    /\ pc = "extracted"
    /\ pc' = "limited"
    /\ images' = limit_image_count(normalize_images(images), imagesCharLimit)
    /\ UNCHANGED <<charLimit, imagesCharLimit, content, content_type, paragraphs,
                   truncated, text, collected, response, fn>>

\* lines 162-163
ClampText ==
    /\ pc = "limited"
    /\ pc' = "clamped"
    /\ text' = clamp_text(text, charLimit)
    /\ UNCHANGED <<charLimit, imagesCharLimit, content, content_type, paragraphs,
                   truncated, collected, images, response, fn>>

\* lines 165-177
Format ==
    /\ pc = "clamped"
    /\ pc' = "done"
    /\ response' = RenderedResponse(text, images)
    /\ UNCHANGED <<charLimit, imagesCharLimit, content, content_type, paragraphs,
                   truncated, text, collected, images, fn>>

Next ==
    \/ Detect
    \/ ExtractPdf
    \/ ExtractHtml
    \/ ExtractJson
    \/ ExtractPlain
    \/ ExtractNothing
    \/ LimitImages
    \/ ClampText
    \/ Format

Spec == Init /\ [][Next]_vars

----------------------------------------------------------------------------
(* State machine of direct calls: the function applied to an input, then   *)
(* again to its own result                                                 *)

FnInit ==
    /\ pc = "idle"
    /\ charLimit = 0
    /\ imagesCharLimit = 0
    /\ content = Resource(<<>>, NoJson, "n/a", NoPdf, NoDom)
    /\ content_type = ""
    /\ paragraphs = <<>>
    /\ truncated = <<>>
    /\ text = <<>>
    /\ collected = <<>>
    /\ images = <<>>
    /\ response = NoResponse
    /\ fn \in FnCalls

FnUnchanged ==
    UNCHANGED <<pc, charLimit, imagesCharLimit, content, content_type, paragraphs,
                truncated, text, collected, images, response>>

CallTruncateParagraphs ==
    /\ fn.op = "truncate_paragraphs"
    /\ Len(fn.results) < MaxCalls
    /\ fn' = [fn EXCEPT !.results = Append(@, truncate_paragraphs(FnArg, fn.max))]
    /\ FnUnchanged

CallLimitImageCount ==
    /\ fn.op = "limit_image_count"
    /\ Len(fn.results) < MaxCalls
    /\ fn' = [fn EXCEPT !.results = Append(@, limit_image_count(FnArg, fn.max))]
    /\ FnUnchanged

CallClampText ==
    /\ fn.op = "clamp_text"
    /\ Len(fn.results) < MaxCalls
    /\ fn' = [fn EXCEPT !.results = Append(@, <<clamp_text(FnArg[1], fn.max)>>)]
    /\ FnUnchanged

FnNext ==
    \/ CallTruncateParagraphs
    \/ CallLimitImageCount
    \/ CallClampText

SpecFn == FnInit /\ [][FnNext]_vars

----------------------------------------------------------------------------
(* Properties *)

Extracted == pc \in {"extracted", "limited", "clamped", "done"}
Limited == pc \in {"limited", "clamped", "done"}
Clamped == pc \in {"clamped", "done"}

\* C1: for every text budget and every format branch, the text that reaches
\* the output formatter (the text of the text_content block) has length at
\* most the budget, also on the HTML path where the truncated fragments are
\* joined with single spaces.
C1_TextWithinBudget ==
    Clamped => Len(text) <= charLimit

\* C1 witness: an HTML request is done whose joined fragments were longer
\* than the budget and whose text fills the budget exactly.
C1_Witness ==
    /\ pc = "done"
    /\ content_type = "text/html"
    /\ Len(truncated) >= 2
    /\ Len(join(<<" ">>, truncated)) > charLimit
    /\ Len(text) = charLimit

\* C2 as claimed: the character length of the serialized image section
\* (the 'images:' line plus one '- <url>' line per surviving image) is at
\* most the image budget.
C2_ImageSectionWithinBudget ==
    pc = "done" => Len(response.images_yaml) <= imagesCharLimit

\* C2 as amended: the summed length of the surviving image URLs is at most
\* the image budget; the serialized section is empty without images and is
\* otherwise that sum plus 8 characters of header plus 3 per image.
C2_ImageUrlsWithinBudget ==
    /\ Limited => SumLen(images) <= imagesCharLimit
    /\ pc = "done" =>
          Len(response.images_yaml) =
              IF images = <<>> THEN 0 ELSE 8 + SumLen(images) + 3 * Len(images)

\* C2 witness: a request is done that dropped an image for the budget, kept
\* one, and whose image section is longer than the budget.
C2_Witness ==
    /\ pc = "done"
    /\ images # <<>>
    /\ Len(images) < Len(collected)
    /\ Len(response.images_yaml) > imagesCharLimit

\* the rules of the sniffer as stated: <html in any letter case is HTML
DetectByRules(c) ==
    IF startswith(c.bytes, PDF_MAGIC) THEN "application/pdf"
    ELSE IF \/ startswith(upper(c.bytes), DOCTYPE_HTML)
            \/ startswith(lower(c.bytes), HTML_TAG)
    THEN "text/html"
    ELSE IF /\ startswith(c.bytes, JSON_OBJECT_OPEN) \/ startswith(c.bytes, JSON_ARRAY_OPEN)
            /\ c.json.kind \in {"dict", "list"}
    THEN "application/json"
    ELSE IF /\ startswith(c.bytes, YAML_DASHES) \/ startswith(c.bytes, YAML_DIRECTIVE)
            /\ c.yaml = "ok"
    THEN "application/x-yaml"
    ELSE "text/plain"

\* C3: detect_content_type applies its rules in order, first match wins:
\* %PDF- is PDF; an HTML doctype or <html in any letter case is HTML; { or [
\* that parses as JSON is JSON; --- or %YAML that parses as YAML is YAML;
\* every other input is PLAIN.
C3_DetectRules ==
    pc # "fetched" => content_type = DetectByRules(content)

\* C4: for every input that is decodable as text the pipeline returns the
\* rendered plain-text output and never the error response, also for a JSON
\* input whose top level is not an object.
C4_NeverErrorResponse ==
    content_type # "application/pdf" =>
        /\ pc # "error"
        /\ pc = "done" => response.status = 200 /\ response.media_type = "text/plain"

\* the number of leading fragments kept in full under budget b
KeptInFull(ps, b) ==
    CHOOSE k \in 0..Len(ps) :
        /\ SumLen(SubSeq(ps, 1, k)) <= b
        /\ k < Len(ps) => SumLen(SubSeq(ps, 1, k + 1)) > b

\* greedy single-stop truncation: the fragments kept in full, then the
\* prefix of the first overflowing fragment, empty or not
GreedyTruncation(ps, b) ==
    LET k == KeptInFull(ps, b)
    IN  IF k = Len(ps) THEN ps
        ELSE SubSeq(ps, 1, k)
             \o <<Slice(ps[k + 1], b - SumLen(SubSeq(ps, 1, k)))>>

\* the same, where an overflowing fragment with no budget left contributes
\* nothing
GreedyWithoutEmptyPrefix(ps, b) ==
    LET k == KeptInFull(ps, b)
    IN  IF k = Len(ps) THEN ps
        ELSE IF b - SumLen(SubSeq(ps, 1, k)) = 0 THEN SubSeq(ps, 1, k)
        ELSE SubSeq(ps, 1, k)
             \o <<Slice(ps[k + 1], b - SumLen(SubSeq(ps, 1, k)))>>

\* C5 as claimed: truncation is greedy with a single stop, and a fragment
\* that overflows with no budget left contributes nothing, neither an empty
\* fragment nor a separator in the joined text: budget 5 on
\* ["Hello", "World"] gives "Hello".
C5_NoEmptyFragment ==
    (Extracted /\ content_type = "text/html") =>
        /\ truncated = GreedyWithoutEmptyPrefix(paragraphs, charLimit)
        /\ (paragraphs = <<HELLO, WORLD>> /\ charLimit = 5) => text = HELLO

\* C5 as amended: truncation is greedy with a single stop; the prefix of
\* the first overflowing fragment is appended even when it is empty, so
\* budget 5 on ["Hello", "World"] gives ["Hello", ""], joined "Hello ", and
\* the output text is "Hello" once the final clamp has run.
C5_GreedySingleStop ==
    (Extracted /\ content_type = "text/html") =>
        /\ truncated = GreedyTruncation(paragraphs, charLimit)
        /\ (paragraphs = <<HELLO, WORLD>> /\ charLimit = 5) =>
              /\ truncated = <<HELLO, <<>>>>
              /\ text = IF Clamped THEN HELLO ELSE HELLO \o <<" ">>

\* C5 witness: the request for <p>Hello</p><p>World</p> under budget 5 is
\* done with output text "Hello".
C5_Witness ==
    /\ pc = "done"
    /\ paragraphs = <<HELLO, WORLD>>
    /\ charLimit = 5
    /\ text = HELLO

\* C6: truncation is idempotent: truncate_paragraphs, limit_image_count and
\* the final text clamp, applied to their own result with the same budget,
\* return that result.
C6_Idempotent ==
    \A i \in 2..Len(fn.results) : fn.results[i] = fn.results[i - 1]

\* C6 witness: truncate_paragraphs was applied twice to an input that the
\* first call cut.
C6_Witness ==
    /\ fn.op = "truncate_paragraphs"
    /\ Len(fn.results) >= 2
    /\ fn.results[1] # fn.arg
    /\ SumLen(fn.results[1]) = fn.max

ProtocolRelative(url) == Len(url) >= 2 /\ url[1] = "/" /\ url[2] = "/"

NormalizedUrls(urls) ==
    [i \in 1..Len(urls) |->
        IF ProtocolRelative(urls[i]) THEN HTTP_PREFIX \o urls[i] ELSE urls[i]]

\* C7: the images emitted are exactly the longest prefix of the normalized
\* URL sequence whose summed lengths do not exceed the image budget: a
\* protocol-relative URL is charged once at its rewritten length, emission
\* stops at the first overflow, every URL is whole, order and duplicates are
\* kept.
C7_LongestPrefix ==
    Limited =>
        LET norm == NormalizedUrls(collected)
            k == Len(images)
        IN  /\ k <= Len(norm)
            /\ images = SubSeq(norm, 1, k)
            /\ SumLen(images) <= imagesCharLimit
            /\ k < Len(norm) => SumLen(SubSeq(norm, 1, k + 1)) > imagesCharLimit

\* C7 witness: a request is done that collected a protocol-relative URL,
\* stopped at an overflowing URL and dropped a later URL that would have fit.
C7_Witness ==
    /\ pc = "done"
    /\ \E i \in 1..Len(collected) : ProtocolRelative(collected[i])
    /\ Len(images) + 1 < Len(collected)
    /\ \E j \in (Len(images) + 2)..Len(collected) :
          SumLen(images) + Len(NormalizedUrls(collected)[j]) <= imagesCharLimit

\* C8: for an input tagged YAML or PLAIN the extracted text is the raw
\* decoded text, so the text_content block holds it clamped to the budget.
C8_YamlPlainRawText ==
    (pc = "done" /\ content_type \in {"application/x-yaml", "text/plain"}) =>
        text = Slice(response_text(content), charLimit)

\* a line ends with one of the seven extensions, compared case-insensitively
EndsWithImageExtension(line) ==
    \E e \in 1..Len(IMAGE_PATTERN_EXTS) :
        endswith(lower(line), <<".">> \o IMAGE_PATTERN_EXTS[e])

\* C9: for PLAIN input a line is collected as an image URL iff it ends with
\* one of .jpg .jpeg .png .gif .bmp .webp .svg in any letter case; collected
\* lines keep their order.
C9_PlainImageLines ==
    (Extracted /\ content_type = "text/plain") =>
        collected = SelectSeq(split(response_text(content), "\n"), EndsWithImageExtension)

PageSucceeded(page) == page.result = "text"

\* C10: a PDF page whose text extraction fails contributes the empty string
\* and extraction continues: the text is the concatenation of the pages that
\* succeeded and the request returns the rendered output.
C10_PdfPagesSkipped ==
    (content_type = "application/pdf" /\ content.pdf.kind = "pages") =>
        /\ pc # "error"
        /\ pc = "done" =>
              LET ok == SelectSeq(content.pdf.pages, PageSucceeded)
              IN  text = Slice(Concat([i \in 1..Len(ok) |-> ok[i].text]), charLimit)

====
